---- MODULE Spec2Model ----
(***************************************************************************)
(* Model of the LSP client scripts of elm-lsp-rust (benchmark.py,          *)
(* feature_compare.py, debug_compare.py, test_refs.py, test_rename.py,     *)
(* test_workspace.py, test_lsp.py).                                        *)
(*                                                                         *)
(* Four specifications share the module:                                   *)
(*   Spec      - one scripted session: the caller thread of a script, the  *)
(*               child server and the reader thread, at the granularity of *)
(*               decoded messages;                                         *)
(*   SpecCodec - encode_lsp and the read_responses decoder at the          *)
(*               granularity of the bytes of the child's stdout pipe;      *)
(*   SpecBench - benchmark_lsp and print_results of benchmark.py at the    *)
(*               granularity of the samples of its trials;                 *)
(*   SpecLive  - Spec with the caller thread scheduled fairly, for what    *)
(*               a script eventually does.                                 *)
(*                                                                         *)
(* One second of wall-clock time is one unit: queue.get(timeout=1) that    *)
(* raises queue.Empty lasts one unit; every other step is instantaneous.   *)
(***************************************************************************)
EXTENDS Integers, Sequences, FiniteSets, TLC

VARIABLES
    script,          \* which script's main()/test function is running
    pc,              \* position of the caller thread in the script
    cur,             \* id of the request the caller is sending / waiting for
    stdin,           \* messages written to proc.stdin, in order
    stdout,          \* messages the child has emitted, not yet decoded by the reader
    response_queue,  \* queue.Queue() shared by reader and caller
    resp,            \* resp[k]: what the wait for request k returned
    results,         \* results[k]: what the script derives from resp[k]
    elapsed,         \* time.time() - start of the current wait_for_response
    polls,           \* iterations done by the current bounded polling loop
    responses,       \* test_lsp.py: the list of collected messages
    handled,         \* test_lsp.py: handled[k] = messages dispatched to branch k
    nemit,           \* number of messages the child has emitted
    stop_event,      \* threading.Event()
    proc,            \* child process: "none" (not spawned) | "running" |
                     \* "terminating" (SIGTERM sent) | "exited" | "killed"
                     \* (codec: "running" | "terminated")
    reader,          \* reader thread: "none" (not started) | "running" (at the
                     \* loop test) | "reading" (inside stdout.read(1)) | "exited"
    stdout_open,     \* some process holds the write end of the pipe of proc.stdout
    file_exists,     \* the file of the project the script opens is there
    child_reads,     \* the child is reading its stdin
    stderr,          \* diagnostic output in the pipe of proc.stderr, in units
    iteration,       \* benchmark: number of trials of benchmark_lsp that are over
    timed_out,       \* benchmark: timed_out[op][n]: sample n of op is a timeout
    report,          \* benchmark: what print_results printed for each operation
    children,        \* benchmark: children[i]: the child, the stop signal and the
                     \* stdout pipe of trial i
    queues,          \* benchmark: the queue.Queue() objects made by benchmark_lsp
    stream,          \* codec: the complete byte stream the child will write
    origin,          \* codec: how the stream was produced
    wire,            \* codec: bytes the child has not written yet
    pipe,            \* codec: bytes in the OS pipe, not yet read by the TextIOWrapper
    dec,             \* codec: state of the incremental text decoder
    decoded_chars,   \* codec: characters decoded by the TextIOWrapper, not yet returned
    buffer           \* codec: the parse buffer of read_responses

codecVars == <<stream, origin, wire, pipe, dec, decoded_chars, buffer>>
benchVars == <<iteration, timed_out, report, children, queues>>
\* what a step of the session leaves alone besides the variables it names
others == <<codecVars, benchVars, stdout_open, file_exists, child_reads, stderr>>
vars == <<script, pc, cur, stdin, stdout, response_queue, resp, results, elapsed,
          polls, responses, handled, nemit, stop_event, proc, reader, stdout_open,
          file_exists, child_reads, stderr, iteration, timed_out, report, children,
          queues, stream, origin, wire, pipe, dec, decoded_chars, buffer>>

----------------------------------------------------------------------------
(* Bounds *)

\* number of requests a modelled script sends (ids 1..NumCalls)
NumCalls == 3
\* number of messages the child emits during one session
MaxServerMsgs == 2
\* deadline of wait_for_response when called without a timeout argument
\* (timeout=30 in the source), counted in polls of q.get(timeout=1)
DefaultTimeout == 3
\* deadline of wait_for_response when called with a timeout argument
\* (timeout=10 or timeout=5 in the source), counted in polls of q.get(timeout=1)
CallTimeout == 2
\* largest id the child uses for a request of its own
MaxServerRequestId == 1

----------------------------------------------------------------------------
(* Messages: decoded JSON values.  id = NoId: no "id" member; method = "": *)
(* no "method" member; body: "result" (non-null result), "null"           *)
(* ("result": null), "error" ("error": {...}) or "none".                   *)

NoId == 0

Msg(i, m, b, t) == [type |-> "dict", id |-> i, method |-> m, body |-> b, text |-> t]

Request(k) == Msg(k, "request", "none", "")
NotificationOut(name) == Msg(NoId, name, "none", "")

Response(k, b) == Msg(k, "", b, "")
ServerNotification == Msg(NoId, "notify", "none", "")
ServerRequest(k) == Msg(k, "notify", "none", "")

\* a message that is valid JSON but not an object: the number 0
Number == [type |-> "int", id |-> NoId, method |-> "", body |-> "none", text |-> ""]

Pending == [type |-> "pending", id |-> NoId, method |-> "", body |-> "none", text |-> ""]
NoneResp == [type |-> "None", id |-> NoId, method |-> "", body |-> "none", text |-> ""]

Ids == 1..NumCalls
Bodies == {"result", "null", "error"}

IsMsg(r) == r.type = "dict"
IsResponse(r) == r.type = "dict" /\ r.id # NoId /\ r.method = ""

----------------------------------------------------------------------------
(* The scripts *)

\* test_rename.py follows test_refs.py: the same wait_for_response after every
\* request, the same open() of the file, the same close sequence.  Of the
\* requests of test_workspace.py, initialize, textDocument/definition and
\* textDocument/references are modelled (calls 1, NumCalls - 1 and NumCalls).
Scripts == {"benchmark", "feature_compare", "debug_compare", "test_refs",
            "test_workspace", "test_lsp"}

\* how a script waits for the answer to a request
Style(s) ==
    IF s \in {"benchmark", "feature_compare"} THEN "get"
    ELSE IF s = "debug_compare" THEN "poll"
    ELSE IF s = "test_lsp" THEN "collect"
    ELSE "wait_for_response"

\* the timeout of wait_for_response for request k: the initialize request is
\* awaited with the default, every later request with an explicit timeout
Timeout(s, k) == IF k = 1 THEN DefaultTimeout ELSE CallTimeout

\* the range() of the polling loop of debug_compare for request k
PollLimit(k) == IF k = 1 THEN 20 ELSE 10

\* resp.get("result") / resp.get("result", []) as the scripts use it
ResultOf(r) == IF r.body = "result" THEN "value" ELSE "empty"

\* what the script stores or prints for request k once r was returned
Outcome(s, k, r) ==
    IF s = "benchmark" THEN "sample"
    ELSE IF ~IsMsg(r) THEN "AttributeError"
    ELSE IF s = "debug_compare" THEN r.body
    ELSE IF s = "test_refs" /\ k = 1 THEN "ignored"
    ELSE IF s \in {"feature_compare", "test_workspace"} /\ k = 1 /\ r.body = "null"
        THEN "exception"
    ELSE ResultOf(r)

\* what the script stores or prints for request k when the wait gave up
TimeoutOutcome(s, k) ==
    IF s = "benchmark" THEN "inf"
    ELSE IF s = "feature_compare" THEN (IF k = 1 THEN "exception" ELSE "TIMEOUT")
    ELSE IF s \in {"test_refs", "test_workspace"} /\ k = 1 THEN "ignored"
    ELSE "Timeout"

\* a script that sends its next request with the id of the last one
AfterCall_same_id(k, ok) ==
    IF ~ok THEN [pc |-> "close", cur |-> k]
    ELSE IF k = 1 THEN [pc |-> "initialized", cur |-> k]
    ELSE IF k < NumCalls THEN [pc |-> "send", cur |-> k]
    ELSE [pc |-> "close", cur |-> k]

\* where the caller goes once the wait for request k is over
\* (ok: the script did not abandon the sequence)
AfterCall(k, ok) ==
    IF ~ok THEN [pc |-> "close", cur |-> k]
    ELSE IF k = 1 THEN [pc |-> "initialized", cur |-> k]
    ELSE IF k < NumCalls THEN [pc |-> "send", cur |-> k + 1]
    ELSE [pc |-> "close", cur |-> k]

\* does the script go on with the sequence after this outcome of request k?
GoesOn(s, k, r) ==
    IF s = "feature_compare" /\ r = Number THEN FALSE
    ELSE IF k # 1 THEN TRUE
    ELSE IF s = "benchmark" THEN r # NoneResp
    ELSE IF s = "feature_compare" THEN r # NoneResp /\ r.body # "null"
    ELSE IF s = "debug_compare" THEN r # NoneResp
    ELSE IF s = "test_workspace" THEN r.body # "null"
    ELSE TRUE

BenchIdle ==
    /\ iteration = 0
    /\ timed_out = <<>>
    /\ report = <<>>
    /\ children = <<>>
    /\ queues = <<>>

CodecIdle ==
    /\ stream = <<>>
    /\ origin = [kind |-> "none"]
    /\ wire = <<>>
    /\ pipe = <<>>
    /\ dec = [lead |-> FALSE, cr |-> FALSE]
    /\ decoded_chars = <<>>
    /\ buffer = <<>>

Init ==
    /\ script \in Scripts
    /\ pc = "spawn"
    /\ cur = 1
    /\ stdin = <<>>
    /\ stdout = <<>>
    /\ response_queue = <<>>
    /\ resp = [k \in Ids |-> Pending]
    /\ results = [k \in Ids |-> "unset"]
    /\ elapsed = 0
    /\ polls = 0
    /\ responses = <<>>
    /\ handled = [k \in Ids |-> <<>>]
    /\ nemit = 0
    /\ stop_event = FALSE
    /\ proc = "none"
    /\ reader = "none"
    /\ stdout_open = TRUE
    /\ file_exists \in (IF script \in {"test_refs", "test_workspace"} THEN BOOLEAN ELSE {TRUE})
    /\ child_reads = TRUE
    /\ stderr = 0
    /\ BenchIdle
    /\ CodecIdle

----------------------------------------------------------------------------
(* The caller thread *)

\* a harness that starts the reader thread before it spawns the child
ReaderStarted_early(spawned) == "running"

\* threading.Thread(target=read_responses, ...).start() comes after
\* subprocess.Popen(...): it is not reached when Popen raises
ReaderStarted(spawned) == IF spawned THEN "running" ELSE "none"

\* subprocess.Popen(cmd, ...) returns (ok) or raises OSError; then queue.Queue(),
\* threading.Event() and the start of the reader thread.  Popen is outside the
\* try block of every script: the exception leaves the function.
Spawn(ok) ==
    /\ pc = "spawn"
    /\ proc' = (IF ok THEN "running" ELSE "none")
    /\ reader' = ReaderStarted(ok)
    /\ pc' = (IF ok THEN "send" ELSE "raised")
    /\ UNCHANGED <<script, cur, stdin, stdout, response_queue, resp, results, elapsed,
                   polls, responses, handled, nemit, stop_event>>
    /\ UNCHANGED others

\* proc.stdin.write(encode_lsp({... "id": cur ...})); proc.stdin.flush()
SendRequest ==
    /\ pc = "send"
    /\ proc = "running"
    /\ stdin' = Append(stdin, Request(cur))
    /\ elapsed' = 0
    /\ polls' = 0
    /\ IF Style(script) = "collect"
       THEN IF cur = 1 THEN pc' = "initialized" /\ cur' = cur
            ELSE IF cur < NumCalls THEN pc' = "send" /\ cur' = cur + 1
            ELSE pc' = "collect" /\ cur' = cur
       ELSE pc' = "wait" /\ cur' = cur
    /\ UNCHANGED <<script, stdout, response_queue, resp, results, responses, handled,
                   nemit, stop_event, proc, reader>>
    /\ UNCHANGED others

\* the "initialized" notification
SendInitialized ==
    /\ pc = "initialized"
    /\ proc = "running"
    /\ stdin' = Append(stdin, NotificationOut("initialized"))
    /\ pc' = "didOpen"
    /\ UNCHANGED <<script, cur, stdout, response_queue, resp, results, elapsed, polls,
                   responses, handled, nemit, stop_event, proc, reader>>
    /\ UNCHANGED others

\* the didOpen of these scripts carries the text of a file of the project,
\* which does not fit into the pipe of the child's stdin
\* what the pipe of proc.stderr holds, in units of diagnostic output
StderrCapacity == 1

\* the pipe of proc.stderr takes what the child writes
StderrTakes(n) == n < StderrCapacity

\* a child that writes diagnostic output before each of its steps is held in
\* write(2) when the pipe of stderr is full: nothing reads that pipe while the
\* child runs (Popen(..., stderr=subprocess.PIPE); proc.stderr.read() comes
\* after the close sequence, or never)
Blocked == ~StderrTakes(stderr)

LargeDidOpen(s) == s \in {"feature_compare", "test_refs", "test_workspace"}

\* the "textDocument/didOpen" notification; flush() returns when the pipe has
\* taken the message: a large one only while the child reads its stdin
SendDidOpen ==
    /\ pc = "didOpen"
    /\ proc = "running"
    /\ file_exists
    /\ LargeDidOpen(script) => (child_reads /\ ~Blocked)
    /\ stdin' = Append(stdin, NotificationOut("textDocument/didOpen"))
    /\ IF NumCalls > 1 THEN pc' = "send" /\ cur' = 2
       ELSE pc' = (IF Style(script) = "collect" THEN "collect" ELSE "close") /\ cur' = cur
    /\ UNCHANGED <<script, stdout, response_queue, resp, results, elapsed, polls,
                   responses, handled, nemit, stop_event, proc, reader>>
    /\ UNCHANGED others

\* test_refs.py: open(test_file) raises FileNotFoundError
OpenFails ==
    /\ pc = "didOpen"
    /\ script = "test_refs"
    /\ ~file_exists
    /\ pc' = "close"
    /\ UNCHANGED <<script, cur, stdin, stdout, response_queue, resp, results, elapsed,
                   polls, responses, handled, nemit, stop_event, proc, reader>>
    /\ UNCHANGED others

\* test_workspace.py: "if os.path.exists(test_file):" fails; the block with the
\* didOpen and the definition request is skipped, the references request is next
SkipDidOpen ==
    /\ pc = "didOpen"
    /\ script = "test_workspace"
    /\ ~file_exists
    /\ pc' = "send"
    /\ cur' = NumCalls
    /\ UNCHANGED <<script, stdin, stdout, response_queue, resp, results, elapsed,
                   polls, responses, handled, nemit, stop_event, proc, reader>>
    /\ UNCHANGED others

\* a script whose exceptions leave the function at once
Finally_none(s) == "done"

\* the block an exception raised inside the try block of the script leads to
Finally(s) == IF s = "test_lsp" THEN "finally_close" ELSE "close"

\* proc.stdin.write / proc.stdin.flush when the child has exited: BrokenPipeError
SendFails ==
    /\ pc \in {"send", "initialized", "didOpen"}
    /\ proc # "running"
    /\ pc' = Finally(script)
    /\ results' = IF pc = "send" THEN [results EXCEPT ![cur] = "BrokenPipeError"]
                  ELSE results
    /\ UNCHANGED <<script, cur, stdin, stdout, response_queue, resp, elapsed, polls,
                   responses, handled, nemit, stop_event, proc, reader>>
    /\ UNCHANGED others

\* the caller has the outcome r of the wait for request cur
Resolve(r, rest) ==
    LET nxt == AfterCall(cur, GoesOn(script, cur, r)) IN
    /\ resp' = [resp EXCEPT ![cur] = r]
    /\ results' = [results EXCEPT ![cur] =
                      IF r = NoneResp THEN TimeoutOutcome(script, cur)
                      ELSE Outcome(script, cur, r)]
    /\ response_queue' = rest
    /\ pc' = nxt.pc
    /\ cur' = nxt.cur
    /\ elapsed' = 0
    /\ polls' = 0

\* benchmark.py, feature_compare.py: resp = response_queue.get(timeout=T)
QueueGet ==
    /\ pc = "wait"
    /\ Style(script) = "get"
    /\ response_queue # <<>>
    /\ Resolve(Head(response_queue), Tail(response_queue))
    /\ UNCHANGED <<script, stdin, stdout, responses, handled, nemit,
                   stop_event, proc, reader>>
    /\ UNCHANGED others

\* ... except queue.Empty
QueueGetEmpty ==
    /\ pc = "wait"
    /\ Style(script) = "get"
    /\ response_queue = <<>>
    /\ Resolve(NoneResp, response_queue)
    /\ UNCHANGED <<script, stdin, stdout, responses, handled, nemit,
                   stop_event, proc, reader>>
    /\ UNCHANGED others

\* wait_for_response: one iteration in which q.get(timeout=1) returns a message
wait_for_response_get ==
    /\ pc = "wait"
    /\ Style(script) = "wait_for_response"
    /\ elapsed < Timeout(script, cur)
    /\ response_queue # <<>>
    /\ IsMsg(Head(response_queue))
    /\ LET r == Head(response_queue) IN
       IF r.id = cur
       THEN Resolve(r, Tail(response_queue))
       ELSE /\ response_queue' = Tail(response_queue)
            /\ UNCHANGED <<pc, cur, resp, results, elapsed, polls>>
    /\ UNCHANGED <<script, stdin, stdout, responses, handled, nemit,
                   stop_event, proc, reader>>
    /\ UNCHANGED others

\* a clock that stands still
Tick_frozen(e) == e

\* time.time() after a q.get(timeout=1) that raised queue.Empty: a second later
Tick(e) == e + 1

\* wait_for_response: one iteration in which q.get(timeout=1) raises queue.Empty
wait_for_response_empty ==
    /\ pc = "wait"
    /\ Style(script) = "wait_for_response"
    /\ elapsed < Timeout(script, cur)
    /\ response_queue = <<>>
    /\ elapsed' = Tick(elapsed)
    /\ UNCHANGED <<script, pc, cur, stdin, stdout, response_queue, resp, results, polls,
                   responses, handled, nemit, stop_event, proc, reader>>
    /\ UNCHANGED others

\* wait_for_response: the while condition fails, return None
wait_for_response_timeout ==
    /\ pc = "wait"
    /\ Style(script) = "wait_for_response"
    /\ elapsed >= Timeout(script, cur)
    /\ Resolve(NoneResp, response_queue)
    /\ UNCHANGED <<script, stdin, stdout, responses, handled, nemit,
                   stop_event, proc, reader>>
    /\ UNCHANGED others

\* debug_compare.py: one iteration of "for _ in range(N)" that gets a message
PollGet ==
    /\ pc = "wait"
    /\ Style(script) = "poll"
    /\ polls < PollLimit(cur)
    /\ response_queue # <<>>
    /\ IsMsg(Head(response_queue))
    /\ LET r == Head(response_queue) IN
       IF r.id = cur
       THEN Resolve(r, Tail(response_queue))
       ELSE /\ response_queue' = Tail(response_queue)
            /\ polls' = polls + 1
            /\ UNCHANGED <<pc, cur, resp, results, elapsed>>
    /\ UNCHANGED <<script, stdin, stdout, responses, handled, nemit,
                   stop_event, proc, reader>>
    /\ UNCHANGED others

\* debug_compare.py: "except queue.Empty: break", or the range is exhausted
PollGiveUp ==
    /\ pc = "wait"
    /\ Style(script) = "poll"
    /\ response_queue = <<>> \/ polls >= PollLimit(cur)
    /\ Resolve(NoneResp, response_queue)
    /\ UNCHANGED <<script, stdin, stdout, responses, handled, nemit,
                   stop_event, proc, reader>>
    /\ UNCHANGED others

\* wait_for_response, debug_compare.py: q.get returns a message that is not a
\* dict: r.get("id") raises AttributeError, which leaves the wait and the try block
WaitRaises ==
    /\ pc = "wait"
    /\ \/ Style(script) = "wait_for_response" /\ elapsed < Timeout(script, cur)
       \/ Style(script) = "poll" /\ polls < PollLimit(cur)
    /\ response_queue # <<>>
    /\ ~IsMsg(Head(response_queue))
    /\ response_queue' = Tail(response_queue)
    /\ results' = [results EXCEPT ![cur] = "AttributeError"]
    /\ pc' = Finally(script)
    /\ elapsed' = 0
    /\ polls' = 0
    /\ UNCHANGED <<script, cur, stdin, stdout, resp, responses, handled, nemit,
                   stop_event, proc, reader>>
    /\ UNCHANGED others

\* test_lsp.py: "while True: responses.append(response_queue.get(timeout=0.5))"
CollectGet ==
    /\ pc = "collect"
    /\ response_queue # <<>>
    /\ responses' = Append(responses, Head(response_queue))
    /\ response_queue' = Tail(response_queue)
    /\ UNCHANGED <<script, pc, cur, stdin, stdout, resp, results, elapsed, polls,
                   handled, nemit, stop_event, proc, reader>>
    /\ UNCHANGED others

\* test_lsp.py: "except queue.Empty: pass" ends the collection
CollectEmpty ==
    /\ pc = "collect"
    /\ response_queue = <<>>
    /\ pc' = "close"
    /\ UNCHANGED <<script, cur, stdin, stdout, response_queue, resp, results, elapsed,
                   polls, responses, handled, nemit, stop_event, proc, reader>>
    /\ UNCHANGED others

\* the child is no longer running
Dead == {"exited", "killed"}

\* a close sequence that sets the stop signal and goes back to sending
NextPc_resend(p, s) ==
    IF p = "close" THEN "send"
    ELSE IF p = "terminate" THEN "proc_wait"
    ELSE IF p = "proc_wait" THEN (IF Style(s) = "collect" THEN "dispatch" ELSE "done")
    ELSE IF p = "finally_close" THEN "finally_terminate"
    ELSE IF p = "finally_terminate" THEN "finally_wait"
    ELSE "done"

\* the step that follows step p of a close sequence of script s
NextPc(p, s) ==
    IF p = "close" THEN "terminate"
    ELSE IF p = "terminate" THEN "proc_wait"
    ELSE IF p = "proc_wait" THEN (IF Style(s) = "collect" THEN "dispatch" ELSE "done")
    ELSE IF p = "finally_close" THEN "finally_terminate"
    ELSE IF p = "finally_terminate" THEN "finally_wait"
    ELSE "done"

\* stop_event.set()
CloseSetStop ==
    /\ pc \in {"close", "finally_close"}
    /\ stop_event' = TRUE
    /\ pc' = NextPc(pc, script)
    /\ UNCHANGED <<script, cur, stdin, stdout, response_queue, resp, results, elapsed,
                   polls, responses, handled, nemit, proc, reader>>
    /\ UNCHANGED others

\* a terminate() that signals whatever the state of the child
Terminate_unguarded(p) == "terminating"

\* proc.terminate(): SIGTERM to a child that is running, nothing otherwise
Terminate(p) == IF p = "running" THEN "terminating" ELSE p

\* proc.terminate()
CloseTerminate ==
    /\ pc \in {"terminate", "finally_terminate"}
    /\ proc' = Terminate(proc)
    /\ pc' = NextPc(pc, script)
    /\ UNCHANGED <<script, cur, stdin, stdout, response_queue, resp, results, elapsed,
                   polls, responses, handled, nemit, stop_event, reader>>
    /\ UNCHANGED others

\* proc.wait(timeout=1) returns: the child has exited
CloseWait ==
    /\ pc \in {"proc_wait", "finally_wait"}
    /\ proc \in Dead
    /\ pc' = NextPc(pc, script)
    /\ UNCHANGED <<script, cur, stdin, stdout, response_queue, resp, results, elapsed,
                   polls, responses, handled, nemit, stop_event, proc, reader>>
    /\ UNCHANGED others

\* an except clause that does not kill
Kill_pass(p) == p

\* proc.kill(): SIGKILL
Kill(p) == "killed"

\* proc.wait(timeout=1) raises TimeoutExpired; except: proc.kill().  The pipe of
\* stdout stays open when a process the child started still holds it.
CloseKill ==
    /\ pc \in {"proc_wait", "finally_wait"}
    /\ proc \notin Dead
    /\ proc' = Kill(proc)
    /\ stdout_open' \in BOOLEAN
    /\ pc' = NextPc(pc, script)
    /\ UNCHANGED <<script, cur, stdin, stdout, response_queue, resp, results, elapsed,
                   polls, responses, handled, nemit, stop_event, reader>>
    /\ UNCHANGED <<codecVars, benchVars, file_exists, child_reads, stderr>>

\* test_lsp.py, branch "req_id == 1": resp.get("result", {}).get("capabilities", {})
\* raises AttributeError when the result is null; `"id" not in resp` raises
\* TypeError when resp is a number
Raises(r) == ~IsMsg(r) \/ (r.id = 1 /\ r.body = "null")

\* test_lsp.py: the messages "for resp in responses" reaches: the loop is inside
\* the try block of main, so the first message that raises is the last one reached
RECURSIVE Reached(_)
Reached(rs) ==
    IF rs = <<>> THEN <<>>
    ELSE IF Raises(Head(rs)) THEN <<Head(rs)>>
    ELSE <<Head(rs)>> \o Reached(Tail(rs))

\* test_lsp.py: the messages a branch "req_id == k" handles
DispatchTo(k, rs) == SelectSeq(Reached(rs), LAMBDA r : r.id # NoId /\ r.id = k)

\* test_lsp.py: "for resp in responses: ... if req_id == 1: ... elif req_id == 2: ..."
Dispatch ==
    /\ pc = "dispatch"
    /\ handled' = [k \in Ids |-> DispatchTo(k, responses)]
    /\ resp' = [k \in Ids |->
                  IF DispatchTo(k, responses) = <<>> THEN NoneResp
                  ELSE DispatchTo(k, responses)[Len(DispatchTo(k, responses))]]
    /\ results' = [k \in Ids |->
                  IF DispatchTo(k, responses) = <<>> THEN "unset"
                  ELSE IF Raises(DispatchTo(k, responses)[Len(DispatchTo(k, responses))])
                  THEN "exception"
                  ELSE ResultOf(DispatchTo(k, responses)[Len(DispatchTo(k, responses))])]
    /\ pc' = "finally_close"
    /\ UNCHANGED <<script, cur, stdin, stdout, response_queue, elapsed, polls,
                   responses, nemit, stop_event, proc, reader>>
    /\ UNCHANGED others

----------------------------------------------------------------------------
(* The child server: any conforming or non-conforming sender *)

\* ids of the requests the child has been sent
Received == {stdin[i].id : i \in 1..Len(stdin)} \ {NoId}

ServerMessages ==
    {Response(k, b) : k \in Received, b \in Bodies}
    \cup {ServerNotification}
    \cup {ServerRequest(k) : k \in 1..MaxServerRequestId}
    \cup {Number}

ServerEmit(m) ==
    /\ proc = "running"
    /\ ~Blocked
    /\ nemit < MaxServerMsgs
    /\ stdout' = Append(stdout, m)
    /\ nemit' = nemit + 1
    /\ UNCHANGED <<script, pc, cur, stdin, response_queue, resp, results, elapsed, polls,
                   responses, handled, stop_event, proc, reader>>
    /\ UNCHANGED others

\* the child writes a unit of diagnostic output to its stderr
ChildLogs ==
    /\ proc = "running"
    /\ StderrTakes(stderr)
    /\ stderr' = stderr + 1
    /\ UNCHANGED <<script, pc, cur, stdin, stdout, response_queue, resp, results, elapsed,
                   polls, responses, handled, nemit, stop_event, proc, reader>>
    /\ UNCHANGED <<codecVars, benchVars, stdout_open, file_exists, child_reads>>

\* the child stops reading its stdin (it is busy, or blocked writing its log
\* to the pipe of stderr, which no script reads before the close sequence).
\* Followed only in the scripts that write a message the pipe cannot take.
ChildStopsReading ==
    /\ proc = "running"
    /\ LargeDidOpen(script)
    /\ child_reads
    /\ child_reads' = FALSE
    /\ UNCHANGED <<script, pc, cur, stdin, stdout, response_queue, resp, results, elapsed,
                   polls, responses, handled, nemit, stop_event, proc, reader>>
    /\ UNCHANGED <<codecVars, benchVars, stdout_open, file_exists, stderr>>

\* the child exits: on its own at any time, or on SIGTERM.  The pipe of stdout
\* stays open when a process the child started still holds it.
ChildTerminates ==
    /\ proc \in {"running", "terminating"}
    /\ proc' = "exited"
    /\ stdout_open' \in BOOLEAN
    /\ UNCHANGED <<script, pc, cur, stdin, stdout, response_queue, resp, results, elapsed,
                   polls, responses, handled, nemit, stop_event, reader>>
    /\ UNCHANGED <<codecVars, benchVars, file_exists, child_reads, stderr>>

----------------------------------------------------------------------------
(* The reader thread, per decoded message *)

\* "while not stop_event.is_set()" holds: the reader enters stdout.read(1)
ReaderLoop ==
    /\ reader = "running"
    /\ ~stop_event
    /\ reader' = "reading"
    /\ UNCHANGED <<script, pc, cur, stdin, stdout, response_queue, resp, results,
                   elapsed, polls, responses, handled, nemit, stop_event, proc>>
    /\ UNCHANGED others

\* a reader that hands the decoded message to the waiting call itself
ReaderPut_direct ==
    /\ reader = "reading"
    /\ stdout # <<>>
    /\ resp' = [resp EXCEPT ![cur] = Head(stdout)]
    /\ stdout' = Tail(stdout)
    /\ reader' = "running"
    /\ UNCHANGED <<script, pc, cur, stdin, response_queue, results, elapsed, polls,
                   responses, handled, nemit, stop_event, proc>>
    /\ UNCHANGED others

\* the reads return the characters of one frame, which completes in the buffer:
\* response_queue.put(json.loads(content))
ReaderPut ==
    /\ reader = "reading"
    /\ stdout # <<>>
    /\ response_queue' = Append(response_queue, Head(stdout))
    /\ stdout' = Tail(stdout)
    /\ reader' = "running"
    /\ UNCHANGED <<script, pc, cur, stdin, resp, results, elapsed, polls,
                   responses, handled, nemit, stop_event, proc>>
    /\ UNCHANGED others

\* "while not stop_event.is_set()" fails
ReaderStop ==
    /\ reader = "running"
    /\ stop_event
    /\ reader' = "exited"
    /\ UNCHANGED <<script, pc, cur, stdin, stdout, response_queue, resp, results,
                   elapsed, polls, responses, handled, nemit, stop_event, proc>>
    /\ UNCHANGED others

\* stdout.read(1) returns "" at the end of the stream: "if not chunk: break"
ReaderEndOfStream ==
    /\ reader = "reading"
    /\ stdout = <<>>
    /\ ~stdout_open
    /\ reader' = "exited"
    /\ UNCHANGED <<script, pc, cur, stdin, stdout, response_queue, resp, results,
                   elapsed, polls, responses, handled, nemit, stop_event, proc>>
    /\ UNCHANGED others

\* a step of the reader thread
ReaderStep == ReaderLoop \/ ReaderPut \/ ReaderStop \/ ReaderEndOfStream

Next ==
    \/ \E ok \in BOOLEAN : Spawn(ok)
    \/ SendRequest
    \/ SendInitialized
    \/ SendDidOpen
    \/ OpenFails
    \/ SkipDidOpen
    \/ SendFails
    \/ QueueGet
    \/ QueueGetEmpty
    \/ wait_for_response_get
    \/ wait_for_response_empty
    \/ wait_for_response_timeout
    \/ PollGet
    \/ PollGiveUp
    \/ WaitRaises
    \/ CollectGet
    \/ CollectEmpty
    \/ CloseSetStop
    \/ CloseTerminate
    \/ CloseWait
    \/ CloseKill
    \/ Dispatch
    \/ \E m \in ServerMessages : ServerEmit(m)
    \/ ChildLogs
    \/ ChildStopsReading
    \/ ChildTerminates
    \/ ReaderLoop
    \/ ReaderPut
    \/ ReaderStop
    \/ ReaderEndOfStream

Spec == Init /\ [][Next]_vars

----------------------------------------------------------------------------
(* Correlation of responses and requests (Spec) *)

\* a response to request k is waiting on the queue
QueueHasResponse(k) ==
    \E i \in 1..Len(response_queue) :
        IsResponse(response_queue[i]) /\ response_queue[i].id = k

\* the loop condition of the current wait_for_response has become false
DeadlinePassed ==
    Style(script) = "wait_for_response" /\ elapsed >= Timeout(script, cur)

\* C1: the message a call returns as the response to request k is a response
\* carrying id k: not a notification, not a request of the server, and not a
\* response to another id.
C1_ReturnedIsOwnResponse ==
    \A k \in Ids : IsMsg(resp[k]) => (IsResponse(resp[k]) /\ resp[k].id = k)

\* C2: once call k has resolved as timed out, a response for k that arrives
\* afterwards is dropped: no other call of the connection returns it.
C2_LateResponseDropped ==
    \A k \in Ids : \A j \in Ids :
        (resp[k] = NoneResp /\ j # k /\ IsResponse(resp[j])) => resp[j].id # k

\* C3: when the response with id k is on the queue before the deadline of
\* call k, what call k returns is that response, whatever else is ahead of it.
C3_QueuedResponseReturned ==
    [][\A k \in Ids :
          (pc = "wait" /\ cur = k /\ resp[k] = Pending /\ resp'[k] # Pending
             /\ QueueHasResponse(k) /\ ~DeadlinePassed)
          => (IsResponse(resp'[k]) /\ resp'[k].id = k)]_vars

\* C4: with several requests outstanding and their responses arriving in any
\* order, every caller is resolved with the response to its own id: what a call
\* selected by id returns carries that id, and every response the collecting
\* script took from the queue reaches the branch of its own id, in arrival
\* order, whatever the other responses are.
C4_OutOfOrderCorrelation ==
    /\ \A k \in Ids :
          (Style(script) \in {"wait_for_response", "collect"} /\ IsMsg(resp[k]))
          => resp[k].id = k
    /\ (script = "test_lsp" /\ pc = "done") =>
          \A k \in Ids :
              SelectSeq(handled[k], IsResponse)
                = SelectSeq(responses, LAMBDA r : IsResponse(r) /\ r.id = k)

\* C5: a message with both a method and an id (a request of the server) is
\* never what a call returns, in the scripts that select the response by id.
C5_ServerRequestNeverFulfils ==
    \A k \in Ids :
        (Style(script) # "get" /\ IsMsg(resp[k]))
        => ~(resp[k].method # "" /\ resp[k].id # NoId)

\* C6: the outcome recorded for a call whose response carries an error differs
\* from the outcome of every successful response, also of one whose result is
\* null or empty.
C6_RemoteErrorDistinguished ==
    \A k \in Ids :
        (script \in {"feature_compare", "test_refs"}
           /\ results[k] # "ignored"
           /\ IsResponse(resp[k]) /\ resp[k].id = k /\ resp[k].body = "error")
        => /\ results[k] # Outcome(script, k, Response(k, "result"))
           /\ results[k] # Outcome(script, k, Response(k, "null"))

----------------------------------------------------------------------------
(* The frame codec.  The unit of the wire is one byte; the unit of the      *)
(* parse buffer is one character (the pipes are opened with text=True).     *)
(* "CL" stands for the text `Content-Length:`, "SP" for the space, and      *)
(* every JSON token below for itself; "xC3" "xA9" are the two bytes of the  *)
(* character "é", "xFF" is a byte that is not UTF-8.                        *)

DigitAtoms == <<"0", "1", "2", "3", "4", "5", "6", "7", "8", "9">>
Digits == {DigitAtoms[i] : i \in 1..10}
DigitValue(a) == (CHOOSE i \in 1..10 : DigitAtoms[i] = a) - 1

\* str(n) for n >= 0
RECURSIVE Decimal(_)
Decimal(n) ==
    IF n < 10 THEN <<DigitAtoms[n + 1]>>
    ELSE Decimal(n \div 10) \o <<DigitAtoms[(n % 10) + 1]>>

\* int(s) for a run of digits
RECURSIVE IntOf(_)
IntOf(ds) ==
    IF ds = <<>> THEN 0
    ELSE 10 * IntOf(SubSeq(ds, 1, Len(ds) - 1)) + DigitValue(ds[Len(ds)])

MethodNames == {"request", "initialized", "textDocument/didOpen", "notify"}
BodyToken(b) == IF b = "result" THEN "result" ELSE IF b = "null" THEN "result_null" ELSE "error"

\* json.dumps(obj, ensure_ascii=False): "é" leaves as itself
json_dumps_raw(m) ==
    <<"{", "jsonrpc">>
    \o (IF m.id # NoId THEN <<"id:">> \o Decimal(m.id) ELSE <<>>)
    \o (IF m.method # "" THEN <<"method:", m.method>> ELSE <<>>)
    \o (IF m.body # "none" THEN <<BodyToken(m.body)>> ELSE <<>>)
    \o (IF m.text # "" THEN <<"text:", m.text>> ELSE <<>>)
    \o <<"}">>

\* json.dumps(obj): ensure_ascii, so "é" leaves as the escape é
json_dumps(m) ==
    <<"{", "jsonrpc">>
    \o (IF m.id # NoId THEN <<"id:">> \o Decimal(m.id) ELSE <<>>)
    \o (IF m.method # "" THEN <<"method:", m.method>> ELSE <<>>)
    \o (IF m.body # "none" THEN <<BodyToken(m.body)>> ELSE <<>>)
    \o (IF m.text # "" THEN <<"text:", IF m.text = "é" THEN "ue9" ELSE m.text>> ELSE <<>>)
    \o <<"}">>

\* an encoder that counts one character too many
encode_lsp_long(obj) ==
    <<"CL", "SP">> \o Decimal(Len(json_dumps(obj)) + 1) \o <<"CR", "LF", "CR", "LF">>
    \o json_dumps(obj)

\* f"Content-Length: {len(content)}\r\n\r\n{content}"
encode_lsp(obj) ==
    <<"CL", "SP">> \o Decimal(Len(json_dumps(obj))) \o <<"CR", "LF", "CR", "LF">>
    \o json_dumps(obj)

\* proc.stdin.write(msg) on a text-mode pipe: the characters as UTF-8 bytes
RECURSIVE TextWrite(_)
TextWrite(cs) ==
    IF cs = <<>> THEN <<>>
    ELSE (IF Head(cs) = "é" THEN <<"xC3", "xA9">> ELSE <<Head(cs)>>) \o TextWrite(Tail(cs))

\* the members of a JSON object, read into the message acc
RECURSIVE ParseMembers(_, _)
ParseMembers(cs, acc) ==
    IF cs = <<>> THEN [ok |-> TRUE, value |-> acc]
    ELSE IF Head(cs) = "jsonrpc" THEN ParseMembers(Tail(cs), acc)
    ELSE IF Head(cs) = "id:" /\ Len(cs) >= 2 /\ cs[2] \in Digits \ {"0"}
        THEN ParseMembers(SubSeq(cs, 3, Len(cs)), [acc EXCEPT !.id = DigitValue(cs[2])])
    ELSE IF Head(cs) = "method:" /\ Len(cs) >= 2 /\ cs[2] \in MethodNames
        THEN ParseMembers(SubSeq(cs, 3, Len(cs)), [acc EXCEPT !.method = cs[2]])
    ELSE IF Head(cs) = "result" THEN ParseMembers(Tail(cs), [acc EXCEPT !.body = "result"])
    ELSE IF Head(cs) = "result_null" THEN ParseMembers(Tail(cs), [acc EXCEPT !.body = "null"])
    ELSE IF Head(cs) = "error" THEN ParseMembers(Tail(cs), [acc EXCEPT !.body = "error"])
    ELSE IF Head(cs) = "text:" /\ Len(cs) >= 2 /\ cs[2] \in {"a", "é", "ue9"}
        THEN ParseMembers(SubSeq(cs, 3, Len(cs)),
                          [acc EXCEPT !.text = IF cs[2] = "ue9" THEN "é" ELSE cs[2]])
    ELSE [ok |-> FALSE, value |-> acc]

\* json.loads(content): ok = FALSE when it raises
json_loads(cs) ==
    IF cs # <<>> /\ (\A i \in 1..Len(cs) : cs[i] \in Digits) /\ (Len(cs) = 1 \/ cs[1] # "0")
    THEN [ok |-> TRUE,
          value |-> [type |-> "int", id |-> IntOf(cs), method |-> "", body |-> "none", text |-> ""]]
    ELSE IF Len(cs) >= 2 /\ cs[1] = "{" /\ cs[Len(cs)] = "}"
    THEN ParseMembers(SubSeq(cs, 2, Len(cs) - 1), Msg(NoId, "", "none", ""))
    ELSE [ok |-> FALSE, value |-> Msg(NoId, "", "none", "")]

\* the end of the maximal run of digits of buf that starts at position i (i - 1: none)
RECURSIVE DigitsEnd(_, _)
DigitsEnd(buf, i) ==
    IF i <= Len(buf) /\ buf[i] \in Digits THEN DigitsEnd(buf, i + 1) ELSE i - 1

\* \r\n after position p, and nothing else
Newline_crlf(buf, p) ==
    IF p + 2 <= Len(buf) /\ buf[p + 1] = "CR" /\ buf[p + 2] = "LF" THEN p + 2 ELSE 0

\* \r?\n after position p: the position of the "\n", 0 when there is none
Newline(buf, p) ==
    IF p + 1 <= Len(buf) /\ buf[p + 1] = "LF" THEN p + 1
    ELSE IF p + 2 <= Len(buf) /\ buf[p + 1] = "CR" /\ buf[p + 2] = "LF" THEN p + 2
    ELSE 0

\* the second \r?\n of the terminator, a being the end of the first (0: none)
Terminator(buf, a) == IF a = 0 THEN 0 ELSE Newline(buf, a)

\* (\d+)\r?\n\r?\n from position j, d being the end of the run of digits
DigitsThenTerminator(buf, j, d) ==
    IF d < j THEN 0 ELSE Terminator(buf, Newline(buf, d))

\* the regular expression Content-Length: (\d+)\r?\n\r?\n matched at position i:
\* the position of the last character matched, 0 when there is no match at i
MatchAt(buf, i) ==
    IF ~(i + 2 <= Len(buf) /\ buf[i] = "CL" /\ buf[i + 1] = "SP") THEN 0
    ELSE DigitsThenTerminator(buf, i + 2, DigitsEnd(buf, i + 2))

\* the positions of buf at which the regular expression matches
MatchStarts(buf) == {i \in 1..Len(buf) : MatchAt(buf, i) # 0}

\* match.end() and int(match.group(1)) of the match that starts at position i
MatchObject(buf, i) ==
    [end |-> MatchAt(buf, i),
     length |-> IntOf(SubSeq(buf, i + 2, DigitsEnd(buf, i + 2)))]

\* the leftmost of the positions S
Leftmost(S) == CHOOSE x \in S : \A y \in S : x <= y

\* re.search: the leftmost match; end = 0 when there is none
RegexSearch(buf) ==
    IF MatchStarts(buf) = {} THEN [end |-> 0, length |-> 0]
    ELSE MatchObject(buf, Leftmost(MatchStarts(buf)))

\* response_queue.put(json.loads(content)) / except: pass, followed by the
\* messages r of the rest of the buffer
PutThen(v, r) ==
    [buffer |-> r.buffer, out |-> (IF v.ok THEN <<v.value>> ELSE <<>>) \o r.out]

RECURSIVE ParseLoop(_)

\* an iteration that leaves the last character of the body in the buffer
ParseMatch_short(buf, m) ==
    IF m.end = 0 THEN [buffer |-> buf, out |-> <<>>]
    ELSE IF Len(buf) >= m.end + m.length
    THEN PutThen(json_loads(SubSeq(buf, m.end + 1, m.end + m.length)),
                 ParseLoop(SubSeq(buf, m.end + m.length, Len(buf))))
    ELSE [buffer |-> buf, out |-> <<>>]

\* one iteration of the parse loop whose re.search gave m
ParseMatch(buf, m) ==
    IF m.end = 0 THEN [buffer |-> buf, out |-> <<>>]
    ELSE IF Len(buf) >= m.end + m.length
    THEN PutThen(json_loads(SubSeq(buf, m.end + 1, m.end + m.length)),
                 ParseLoop(SubSeq(buf, m.end + m.length + 1, Len(buf))))
    ELSE [buffer |-> buf, out |-> <<>>]

\* the loop `while "Content-Length:" in buffer:` of read_responses:
\* the messages put on the queue and the buffer that is left
ParseLoop(buf) ==
    IF ~(\E i \in 1..Len(buf) : buf[i] = "CL") THEN [buffer |-> buf, out |-> <<>>]
    ELSE ParseMatch(buf, RegexSearch(buf))

----------------------------------------------------------------------------
(* The text layer of proc.stdout (text=True): UTF-8 decoding and universal  *)
(* newlines, chunk by chunk                                                 *)

\* the incremental UTF-8 decoder; lead: a lead byte is waiting for its continuation
RECURSIVE Utf8Decode(_, _, _)
Utf8Decode(bs, lead, acc) ==
    IF bs = <<>> THEN [err |-> FALSE, chars |-> acc, lead |-> lead]
    ELSE IF lead
        THEN IF Head(bs) = "xA9" THEN Utf8Decode(Tail(bs), FALSE, Append(acc, "é"))
             ELSE [err |-> TRUE, chars |-> acc, lead |-> FALSE]
    ELSE IF Head(bs) = "xC3" THEN Utf8Decode(Tail(bs), TRUE, acc)
    ELSE IF Head(bs) \in {"xA9", "xFF"} THEN [err |-> TRUE, chars |-> acc, lead |-> FALSE]
    ELSE Utf8Decode(Tail(bs), FALSE, Append(acc, Head(bs)))

\* universal newlines: "\r\n" and "\r" become "\n"
RECURSIVE Translate(_)
Translate(cs) ==
    IF cs = <<>> THEN <<>>
    ELSE IF Head(cs) = "CR"
        THEN IF Len(cs) >= 2 /\ cs[2] = "LF" THEN <<"LF">> \o Translate(SubSeq(cs, 3, Len(cs)))
             ELSE <<"LF">> \o Translate(Tail(cs))
    ELSE <<Head(cs)>> \o Translate(Tail(cs))

\* the characters of a chunk with the "\r" held back from the previous chunk
WithHeldCR(chars, cr, final) ==
    IF cr /\ (chars # <<>> \/ final) THEN <<"CR">> \o chars ELSE chars

\* a "\r" at the end of a chunk is held back until the next character is known
EndsInCR(o, final) == ~final /\ o # <<>> /\ o[Len(o)] = "CR"

WithoutLastCR(o, final) == IF EndsInCR(o, final) THEN SubSeq(o, 1, Len(o) - 1) ELSE o

\* the newline translation of the characters u of a chunk; o: u.chars with the
\* "\r" held back before
TranslateChunk(u, o, cr, final) ==
    [err |-> u.err \/ (final /\ u.lead),
     chars |-> Translate(WithoutLastCR(o, final)),
     st |-> [lead |-> u.lead,
             cr |-> (cr /\ ~(u.chars # <<>> \/ final)) \/ EndsInCR(o, final)]]

DecodedChunk(u, cr, final) == TranslateChunk(u, WithHeldCR(u.chars, cr, final), cr, final)

\* one chunk through the decoder of the TextIOWrapper; st = [lead, cr], cr: a "\r"
\* at the end of the previous chunk is held back; final: end of stream
DecodeChunk(bs, st, final) == DecodedChunk(Utf8Decode(bs, st.lead, <<>>), st.cr, final)

----------------------------------------------------------------------------
(* SpecCodec: one byte stream of the child, delivered by the pipe in chunks *)
(* of any size, and read by read_responses                                  *)

\* number of frames (or stretches of bytes) a stream is made of
MaxFrames == 2

CRLF == <<"CR", "LF", "CR", "LF">>
LFLF == <<"LF", "LF">>

\* a frame as a child writes it: Content-Length counts the bytes of the body
ServerFrame(body, term) == <<"CL", "SP">> \o Decimal(Len(body)) \o term \o body

\* a frame whose Content-Length value is not a decimal number (value = <<>>: no value)
BadLengthFrame(value, body) == <<"CL", "SP">> \o value \o CRLF \o body

\* a frame with a Content-Type line after Content-Length ("CT": that line's text)
ContentTypeFrame(body) ==
    <<"CL", "SP">> \o Decimal(Len(body)) \o <<"CR", "LF", "CT">> \o CRLF \o body

\* a frame whose header name is written in lower case ("cl": `content-length:`)
LowerCaseFrame(body) == <<"cl", "SP">> \o Decimal(Len(body)) \o CRLF \o body

\* the stretches a stream of the child is made of; msg: the message of a
\* well-formed frame; kind: "frame" | "frame_ct" (a frame with a further header
\* field) | "frame_lc" (a frame with a lower-case header name) | "badjson" |
\* "badheader" | "garbage"
Pieces ==
    { [kind |-> "frame", msg |-> Response(1, "result"),
       bytes |-> ServerFrame(json_dumps(Response(1, "result")), CRLF)],
      [kind |-> "frame", msg |-> ServerNotification,
       bytes |-> ServerFrame(json_dumps(ServerNotification), LFLF)],
      [kind |-> "frame", msg |-> Msg(2, "", "result", "é"),
       bytes |-> ServerFrame(<<"{", "id:", "2", "result", "text:", "xC3", "xA9", "}">>, CRLF)],
      [kind |-> "badjson", msg |-> NoneResp,
       bytes |-> ServerFrame(<<"{", "result">>, CRLF)],
      [kind |-> "badjson", msg |-> NoneResp,
       bytes |-> ServerFrame(<<"{", "text:", "xC3", "xA9">>, CRLF)],
      [kind |-> "garbage", msg |-> NoneResp, bytes |-> <<"xFF">>],
      [kind |-> "badheader", msg |-> NoneResp,
       bytes |-> BadLengthFrame(<<"x">>, <<"{", "}">>)],
      [kind |-> "badheader", msg |-> NoneResp,
       bytes |-> BadLengthFrame(<<>>, <<"{", "}">>)],
      [kind |-> "frame_ct", msg |-> Response(1, "null"),
       bytes |-> ContentTypeFrame(json_dumps(Response(1, "null")))],
      [kind |-> "frame_lc", msg |-> Response(2, "result"),
       bytes |-> LowerCaseFrame(json_dumps(Response(2, "result")))] }

\* the messages a client sends
ClientMessages ==
    { Request(1), Request(2), NotificationOut("initialized"),
      Msg(NoId, "textDocument/didOpen", "none", "a"),
      Msg(NoId, "textDocument/didOpen", "none", "é") }

RECURSIVE Concat(_)
Concat(ps) == IF ps = <<>> THEN <<>> ELSE Head(ps).bytes \o Concat(Tail(ps))

PieceSeqs == UNION {[1..n -> Pieces] : n \in 1..MaxFrames}

\* the streams of well-formed frames
FrameSeqs == {ps \in PieceSeqs : \A i \in 1..Len(ps) : ps[i].kind = "frame"}

\* the stream bs without its last n bytes: the child exits in the middle of the
\* last frame (origin.kind = "cut")
CutShort(bs, n) == SubSeq(bs, 1, Len(bs) - n)

InitCodec ==
    /\ \/ \E ps \in PieceSeqs :
             /\ origin = [kind |-> "server", pieces |-> ps, msg |-> NoneResp]
             /\ stream = Concat(ps)
       \/ \E ps \in FrameSeqs : \E n \in 1..(Len(ps[Len(ps)].bytes) - 1) :
             /\ origin = [kind |-> "cut", pieces |-> ps, msg |-> NoneResp]
             /\ stream = CutShort(Concat(ps), n)
       \/ \E m \in ClientMessages :
             /\ origin = [kind |-> "encode", pieces |-> <<>>, msg |-> m]
             /\ stream = TextWrite(encode_lsp(m))
    /\ wire = stream
    /\ pipe = <<>>
    /\ dec = [lead |-> FALSE, cr |-> FALSE]
    /\ decoded_chars = <<>>
    /\ buffer = <<>>
    /\ response_queue = <<>>
    /\ stop_event = FALSE
    /\ reader = "running"
    /\ proc = "running"
    /\ script = "codec"
    /\ pc = "idle"
    /\ cur = 1
    /\ stdin = <<>>
    /\ stdout = <<>>
    /\ resp = [k \in Ids |-> Pending]
    /\ results = [k \in Ids |-> "unset"]
    /\ elapsed = 0
    /\ polls = 0
    /\ responses = <<>>
    /\ handled = [k \in Ids |-> <<>>]
    /\ nemit = 0
    /\ stdout_open = TRUE
    /\ file_exists = TRUE
    /\ child_reads = TRUE
    /\ stderr = 0
    /\ BenchIdle

codecRest == <<script, pc, cur, stdin, stdout, resp, results, elapsed, polls,
               responses, handled, nemit, stop_event, stdout_open, file_exists,
               child_reads, stderr, iteration, timed_out, report, children, queues,
               stream, origin>>

\* the child writes the next n bytes of its output into the pipe
ChildWrite(n) ==
    /\ proc = "running"
    /\ n \in 1..Len(wire)
    /\ pipe' = pipe \o SubSeq(wire, 1, n)
    /\ wire' = SubSeq(wire, n + 1, Len(wire))
    /\ UNCHANGED <<dec, decoded_chars, buffer, response_queue, reader, proc>>
    /\ UNCHANGED codecRest

\* the child exits when it has written everything: its stdout reaches end of stream
ChildExit ==
    /\ proc = "running"
    /\ wire = <<>>
    /\ proc' = "terminated"
    /\ UNCHANGED <<wire, pipe, dec, decoded_chars, buffer, response_queue, reader>>
    /\ UNCHANGED codecRest

\* the parse loop has run: the messages are on the queue, the rest is the buffer
PutAll(r) ==
    /\ buffer' = r.buffer
    /\ response_queue' = response_queue \o r.out

\* buffer += chunk, then the parse loop
Consume(c) == PutAll(ParseLoop(Append(buffer, c)))

\* a reader that reports the end of the stream with a message on the queue
Deliver_report(d, eof) ==
    IF d.err \/ (eof /\ d.chars = <<>>)
    THEN /\ reader' = "exited"
         /\ response_queue' = Append(response_queue, NoneResp)
         /\ UNCHANGED <<dec, decoded_chars, buffer>>
    ELSE IF d.chars = <<>>
    THEN /\ dec' = d.st
         /\ UNCHANGED <<decoded_chars, buffer, response_queue, reader>>
    ELSE /\ dec' = d.st
         /\ decoded_chars' = Tail(d.chars)
         /\ Consume(Head(d.chars))
         /\ UNCHANGED reader

\* stdout.read(1) got the decoded chunk d from the TextIOWrapper (eof: at the end
\* of the stream): UnicodeDecodeError and "except: break", or "if not chunk:
\* break", or the first character of d
Deliver(d, eof) ==
    IF d.err \/ (eof /\ d.chars = <<>>)
    THEN /\ reader' = "exited"
         /\ UNCHANGED <<dec, decoded_chars, buffer, response_queue>>
    ELSE IF d.chars = <<>>
    THEN /\ dec' = d.st
         /\ UNCHANGED <<decoded_chars, buffer, response_queue, reader>>
    ELSE /\ dec' = d.st
         /\ decoded_chars' = Tail(d.chars)
         /\ Consume(Head(d.chars))
         /\ UNCHANGED reader

\* one iteration of `while not stop_event.is_set()` in which stdout.read(1)
\* has bytes or characters to work on
ReaderReadChar ==
    /\ reader = "running"
    /\ ~stop_event
    /\ IF decoded_chars # <<>>
       THEN /\ Consume(Head(decoded_chars))
            /\ decoded_chars' = Tail(decoded_chars)
            /\ UNCHANGED <<pipe, dec, reader>>
       ELSE /\ pipe # <<>>
            /\ pipe' = <<>>
            /\ Deliver(DecodeChunk(pipe, dec, FALSE), FALSE)
    /\ UNCHANGED <<wire, proc>>
    /\ UNCHANGED codecRest

\* stdout.read(1) at the end of the stream: the decoder is flushed, then
\* `if not chunk: break`
ReaderEOF ==
    /\ reader = "running"
    /\ ~stop_event
    /\ decoded_chars = <<>>
    /\ pipe = <<>>
    /\ proc = "terminated"
    /\ Deliver(DecodeChunk(<<>>, dec, TRUE), TRUE)
    /\ UNCHANGED <<wire, pipe, proc>>
    /\ UNCHANGED codecRest

NextCodec ==
    \/ \E n \in 1..Len(wire) : ChildWrite(n)
    \/ ChildExit
    \/ ReaderReadChar
    \/ ReaderEOF

SpecCodec == InitCodec /\ [][NextCodec]_vars

----------------------------------------------------------------------------
(* Framing (SpecCodec) *)

\* every byte of the stream has been written, read and parsed
AllConsumed == wire = <<>> /\ pipe = <<>> /\ decoded_chars = <<>>

\* the messages of the well-formed frames of a stream, in stream order
RECURSIVE Expected(_)
Expected(ps) ==
    IF ps = <<>> THEN <<>>
    ELSE (IF Head(ps).kind = "frame" THEN <<Head(ps).msg>> ELSE <<>>) \o Expected(Tail(ps))

RECURSIVE FeedChars(_, _, _)

\* the parse loop gave r for one character; go on with the others
FeedNext(cs, r, out) == FeedChars(cs, r.buffer, out \o r.out)

\* read_responses run over the characters cs, one per iteration
FeedChars(cs, buf, out) ==
    IF cs = <<>> THEN [buffer |-> buf, out |-> out]
    ELSE FeedNext(Tail(cs), ParseLoop(Append(buf, Head(cs))), out)

RECURSIVE ByteWise(_, _, _, _)

\* the characters d of one byte went through the parse loop, giving f
ByteWiseNext(bs, d, f) == ByteWise(bs, d.st, f.buffer, f.out)

\* the decoder gave d for one byte (for the end of the stream when bs = <<>>)
ByteWiseFeed(bs, d, buf, out, final) ==
    IF d.err THEN out
    ELSE IF final THEN FeedChars(d.chars, buf, out).out
    ELSE ByteWiseNext(bs, d, FeedChars(d.chars, buf, out))

\* what read_responses puts on the queue when the pipe delivers the stream
\* bs one byte at a time
ByteWise(bs, st, buf, out) ==
    IF bs = <<>>
    THEN ByteWiseFeed(bs, DecodeChunk(<<>>, st, TRUE), buf, out, TRUE)
    ELSE ByteWiseFeed(Tail(bs), DecodeChunk(<<Head(bs)>>, st, FALSE), buf, out, FALSE)

\* C7: round trip: the decoder fed encode_lsp(m) puts exactly one message on
\* the queue, equal to m, and leaves the parse buffer empty.
C7_RoundTrip ==
    origin.kind = "encode" =>
        /\ response_queue \in {<<>>, <<origin.msg>>}
        /\ AllConsumed => (response_queue = <<origin.msg>> /\ buffer = <<>>)

\* a message with non-ASCII text went through encode_lsp and the decoder
C7_Witness ==
    /\ origin.kind = "encode"
    /\ origin.msg.text = "é"
    /\ AllConsumed
    /\ response_queue = <<origin.msg>>
    /\ buffer = <<>>

\* C8: whatever the chunks in which the pipe delivers a byte stream, the reader
\* has put the same messages on the queue when it is through: those of the
\* delivery in chunks of one byte.
C8_ChunkingIndependent ==
    reader = "exited" =>
        response_queue = ByteWise(stream, [lead |-> FALSE, cr |-> FALSE], <<>>, <<>>)

\* C9: the messages of a stream of well-formed frames are put on the queue in
\* the order of their frames, all of them, and one pass of the parse loop over
\* a buffer holding the whole stream yields all of them in that order.
C9_FramesInOrder ==
    (origin.kind = "server"
       /\ \A i \in 1..Len(origin.pieces) : origin.pieces[i].kind = "frame")
    => (reader = "exited" =>
          /\ response_queue = Expected(origin.pieces)
          /\ ParseLoop(DecodeChunk(stream, [lead |-> FALSE, cr |-> FALSE], TRUE).chars).out
               = Expected(origin.pieces))

\* C10: in a stream of frames of which some have a body that is not valid
\* JSON, those frames are dropped and the messages of all the others are put
\* on the queue, in order.
C10_BadJsonSkipped ==
    (origin.kind = "server"
       /\ reader = "exited"
       /\ (\A i \in 1..Len(origin.pieces) : origin.pieces[i].kind \in {"frame", "badjson"})
       /\ (\E i \in 1..Len(origin.pieces) : origin.pieces[i].kind = "badjson"))
    => response_queue = Expected(origin.pieces)

\* the messages of all the frames of a stream that carry one, whatever the
\* form of their header
RECURSIVE Messages(_)
Messages(ps) ==
    IF ps = <<>> THEN <<>>
    ELSE (IF Head(ps).msg # NoneResp THEN <<Head(ps).msg>> ELSE <<>>) \o Messages(Tail(ps))

\* the stream is made of pieces of the kinds K, at least one of the kinds L
StreamOf(K, L) ==
    /\ origin.kind = "server"
    /\ \A i \in 1..Len(origin.pieces) : origin.pieces[i].kind \in K
    /\ \E i \in 1..Len(origin.pieces) : origin.pieces[i].kind \in L

\* C11: a frame whose Content-Length value is missing or not a decimal number
\* is discarded, and every well-formed frame that follows it in the stream is
\* decoded and put on the queue.
C11_BadHeaderDiscarded ==
    (StreamOf({"frame", "badheader"}, {"badheader"}) /\ reader = "exited")
    => response_queue = Expected(origin.pieces)

\* C12: the body of a frame is exactly Content-Length bytes of the stream: when
\* a stream of well-formed frames with a multi-byte character in a body has been
\* read to its end, every frame was cut where its byte count ends: the buffer
\* is empty and every message is on the queue.
C12_BodyIsContentLengthBytes ==
    (StreamOf({"frame"}, {"frame"})
       /\ (\E i \in 1..Len(origin.pieces) : origin.pieces[i].msg.text = "é")
       /\ reader = "exited" /\ AllConsumed)
    => (buffer = <<>> /\ Len(response_queue) = Len(origin.pieces))

C14_ExtraHeaderFieldDecoded ==
    (StreamOf({"frame_ct"}, {"frame_ct"}) /\ reader = "exited")
    => response_queue = Messages(origin.pieces)

----------------------------------------------------------------------------
(* Frame boundaries (SpecCodec) *)

\* the characters the reader gets for the bytes bs of a whole frame
Chars(bs) == DecodeChunk(bs, [lead |-> FALSE, cr |-> FALSE], TRUE).chars

\* the frames of the stream that have a header with a Content-Length and its
\* terminator, as the characters the reader gets for them
WholeFrames ==
    IF origin.kind = "encode" THEN {Chars(stream)}
    ELSE {Chars(origin.pieces[i].bytes) :
            i \in {j \in 1..Len(origin.pieces) : origin.pieces[j].kind \in {"frame", "badjson"}}}

\* the sequence f occurs in the sequence b
Contains(b, f) ==
    \E i \in 0..(Len(b) - Len(f)) : SubSeq(b, i + 1, i + Len(f)) = f

\* the sequence f is the end of the sequence b
EndsWith(b, f) ==
    Len(b) >= Len(f) /\ SubSeq(b, Len(b) - Len(f) + 1, Len(b)) = f

\* the character the next stdout.read(1) returns: one already decoded, the
\* first of the chunk in the pipe, or at the end of the stream what the
\* decoder had held back
NextChar ==
    IF decoded_chars # <<>> THEN Head(decoded_chars)
    ELSE Head(DecodeChunk(pipe, dec, pipe = <<>>).chars)

\* a step of the reader that read a character, b being the buffer with that
\* character: the buffer only grew, or a whole frame was in it; and when a
\* message was put on the queue, it is one message, its frame is the end of b
\* and nothing is left in the buffer
AllOrNothing(b) ==
    /\ (buffer' # b \/ response_queue' # response_queue)
       => \E f \in WholeFrames : Contains(b, f)
    /\ response_queue' # response_queue
       => /\ Len(response_queue') = Len(response_queue) + 1
          /\ \E f \in WholeFrames : EndsWith(b, f)
          /\ buffer' = <<>>

\* C25: decoding is all-or-nothing per frame: until the header, its terminator
\* and the whole body of a frame are in the parse buffer, nothing is put on the
\* queue and nothing is taken out of the buffer; when a message is put on the
\* queue, the buffer is cut right after the body of its frame.
C25_AllOrNothingPerFrame ==
    [][(buffer' # buffer \/ response_queue' # response_queue)
       => AllOrNothing(Append(buffer, NextChar))]_vars

\* two frames have been decoded one after the other, whatever the chunks
C25_Witness ==
    /\ origin.kind = "server"
    /\ Len(origin.pieces) = 2
    /\ AllConsumed
    /\ Len(response_queue) = 2
    /\ buffer = <<>>

\* C29: the reader keeps draining the child's stdout while the connection is
\* open: when it has read everything the child has written, every well-formed
\* frame of the stream has been put on the queue.
C29_ReaderDrainsEveryFrame ==
    (origin.kind = "server" /\ AllConsumed /\ reader = "running" /\ ~stop_event)
    => response_queue = Expected(origin.pieces)

----------------------------------------------------------------------------
(* The forms of a header (SpecCodec) *)

\* the decoder state at the start of a stream
DecoderStart == [lead |-> FALSE, cr |-> FALSE]

\* the stream bs with every header name written `Content-Length:`
Canonical(bs) == [i \in 1..Len(bs) |-> IF bs[i] = "cl" THEN "CL" ELSE bs[i]]

\* C33: the header name is matched whatever its case: a stream with frames
\* whose header is written `content-length: <L>` gives the messages that the
\* same stream with `Content-Length: <L>` gives.
C33_HeaderNameAnyCase ==
    (StreamOf({"frame", "frame_lc"}, {"frame_lc"}) /\ reader = "exited" /\ AllConsumed)
    => response_queue = ByteWise(Canonical(stream), DecoderStart, <<>>, <<>>)

\* the stream bs with "\n\n" for every header terminator
WithoutCR(bs) == SelectSeq(bs, LAMBDA b : b # "CR")

\* the stream bs with "\r\n\r\n" for every header terminator
RECURSIVE WithCR(_)
WithCR(bs) ==
    IF bs = <<>> THEN <<>>
    ELSE IF Head(bs) = "CR" THEN WithCR(Tail(bs))
    ELSE IF Head(bs) = "LF" THEN <<"CR", "LF">> \o WithCR(Tail(bs))
    ELSE <<Head(bs)>> \o WithCR(Tail(bs))

\* no body of the stream holds a multi-byte character
Ascii == \A i \in 1..Len(stream) : stream[i] \notin {"xC3", "xA9", "xFF"}

\* C34: both header terminators are accepted: a stream of frames gives the
\* messages that the same stream gives with "\n\n" for every terminator and
\* with "\r\n\r\n" for every terminator; for frames with ASCII bodies these are
\* the messages of the frames.
C34_BothTerminators ==
    (StreamOf({"frame"}, {"frame"}) /\ reader = "exited" /\ AllConsumed)
    => /\ response_queue = ByteWise(WithoutCR(stream), DecoderStart, <<>>, <<>>)
       /\ response_queue = ByteWise(WithCR(stream), DecoderStart, <<>>, <<>>)
       /\ Ascii => response_queue = Expected(origin.pieces)

\* a frame ended by "\r\n\r\n" and a frame ended by "\n\n" have been decoded
C34_Witness ==
    /\ StreamOf({"frame"}, {"frame"})
    /\ Len(origin.pieces) = 2
    /\ stream # WithoutCR(stream)
    /\ stream # WithCR(stream)
    /\ reader = "exited"
    /\ AllConsumed
    /\ Len(response_queue) = 2

----------------------------------------------------------------------------
(* The ways out of the reader's loop (SpecCodec) *)

\* C38: the reader leaves its loop only because the stop signal is set or
\* the stream is at its end: nothing the child writes makes the reader leave
\* while the child is running.
C38_ReaderExitsOnlyOnStopOrEnd ==
    [][(reader # "exited" /\ reader' = "exited")
         => \/ stop_event
            \/ proc = "terminated" /\ pipe = <<>> /\ decoded_chars = <<>>]_vars

----------------------------------------------------------------------------
(* The end of the stream (SpecCodec) *)

\* the next stdout.read(1) is at the end of the stream
AtEndOfStream ==
    /\ reader = "running"
    /\ ~stop_event
    /\ proc = "terminated"
    /\ pipe = <<>>
    /\ decoded_chars = <<>>

\* the messages of the frames the child wrote whole
WrittenWhole ==
    IF origin.kind = "encode" THEN {origin.msg}
    ELSE {origin.pieces[i].msg :
            i \in 1..(Len(origin.pieces) - (IF origin.kind = "cut" THEN 1 ELSE 0))}
         \ {NoneResp}

\* the queue holds messages of whole frames only, at most one for each
OnlyWholeFrames ==
    /\ \A i \in 1..Len(response_queue) : response_queue[i] \in WrittenWhole
    /\ origin.kind = "cut" => Len(response_queue) <= Len(origin.pieces) - 1

\* C31: at the end of the child's output stream the reader terminates (after
\* the "\r" the text layer may have held back), and nothing is put on the
\* queue for the partial frame that is left in the buffer: the queue holds
\* messages of whole frames only.
C31_EndOfStreamDiscardsPartial ==
    [][AtEndOfStream =>
         /\ response_queue' = response_queue
         /\ OnlyWholeFrames
         /\ reader' = "exited" \/ (dec.cr /\ ~dec'.cr)]_vars

\* the child exited in the middle of a frame that follows a whole one: the
\* reader has left with the whole frame's message on the queue and the partial
\* frame in the buffer
C31_Witness ==
    /\ origin.kind = "cut"
    /\ Len(origin.pieces) = 2
    /\ reader = "exited"
    /\ buffer # <<>>
    /\ response_queue = <<origin.pieces[1].msg>>

----------------------------------------------------------------------------
(* The close sequence, the end of the stream, the handshake (Spec) *)

\* the steps of a close sequence in which proc.wait(timeout) is pending
WaitPcs == {"proc_wait", "finally_wait"}

\* the steps of the close sequence of the finally block of test_lsp.py
FinallyPcs == {"finally_close", "finally_terminate", "finally_wait"}

\* C15: close() sets the stop signal, then asks the child to terminate, and
\* kills it only when the wait of the grace period ended without the child
\* having exited; when close() has returned the child is not running.
C15_CloseSequence ==
    [][/\ (proc = "running" /\ proc' = "terminating") => stop_event
       /\ (proc # "killed" /\ proc' = "killed") => (proc = "terminating" /\ pc \in WaitPcs)
       /\ (pc' \in {"dispatch", "done"}) => (stop_event' /\ proc' \in Dead)]_vars

\* a close sequence has returned after it had to kill the child
C15_Witness ==
    /\ script = "benchmark"
    /\ pc = "done"
    /\ stop_event
    /\ proc = "killed"

\* C16: a step of the close sequence on a connection that is closed already
\* (stop signal set, child not running) changes neither the stop signal nor
\* the child, and the sequence runs to its end.
C16_CloseIdempotent ==
    [][(stop_event /\ proc \in Dead /\ pc \in FinallyPcs /\ pc' # pc)
       => (stop_event' /\ proc' = proc /\ stdout_open' = stdout_open
             /\ pc' \in FinallyPcs \cup {"done"})]_vars

\* test_lsp.py has run its close sequence, dispatched, and run the close
\* sequence of its finally block on the closed connection
C16_Witness ==
    /\ script = "test_lsp"
    /\ pc = "done"
    /\ resp[1] # Pending
    /\ stop_event
    /\ proc \in Dead

\* C17: once close() has set the stop signal and returned, a reader thread
\* that has not left its loop can take a step: it is not held in a read that
\* nothing will end.
C17_ReaderLeavesLoop ==
    (stop_event /\ pc = "done" /\ reader # "exited") => ENABLED ReaderStep

\* C18: a call that is pending when the stream of the child has ended (child
\* exited, reader gone, nothing left on the queue) is not resolved as a call
\* that timed out.
C18_StreamEndResolvesPending ==
    [][(pc = "wait" /\ resp[cur] = Pending /\ resp'[cur] # Pending
          /\ proc \in Dead /\ ~stdout_open /\ reader = "exited" /\ response_queue = <<>>)
       => results'[cur] # TimeoutOutcome(script, cur)]_vars

\* C19: when a call that is not the last of the sequence ends in a timeout or
\* in an error response, the script goes on with the next message on the same
\* connection: the close sequence does not start.
C19_FailureIsLocal ==
    [][(pc = "wait" /\ resp[cur] = Pending /\ resp'[cur] # Pending
          /\ cur < NumCalls /\ proc = "running"
          /\ (resp'[cur] = NoneResp
                \/ (IsResponse(resp'[cur]) /\ resp'[cur].id = cur
                      /\ resp'[cur].body = "error")))
       => (pc' \in {"send", "initialized"} /\ ~stop_event')]_vars

\* C20: the first message written is the initialize request, and a second
\* message is written only when the response to it has been received.
C20_InitializeHandshakeFirst ==
    /\ stdin # <<>> => stdin[1] = Request(1)
    /\ Len(stdin) >= 2 => (IsResponse(resp[1]) /\ resp[1].id = 1)

----------------------------------------------------------------------------
(* The life of a connection (Spec) *)

\* the steps of the close sequences, and the end of the script
ClosePcs == {"close", "terminate", "proc_wait", "dispatch",
             "finally_close", "finally_terminate", "finally_wait", "done"}

\* C21: once the close sequence of a connection has started, nothing more is
\* written to the stdin of its child.
C21_ClosedIsTerminal ==
    [][(stop_event \/ pc \in ClosePcs) => stdin' = stdin]_vars

\* a script has written its messages and has run its close sequence to the end
C21_Witness ==
    /\ pc = "done"
    /\ stop_event
    /\ Len(stdin) >= 2
    /\ proc \in Dead

\* C22: when Popen raises, the script is left at once, and nothing of a
\* connection exists: no child, no reader thread, nothing on the queue, no
\* message written, no stop signal set.
C22_SpawnFailureLeavesNothing ==
    /\ proc = "none" => pc \in {"spawn", "raised"}
    /\ pc = "raised" =>
          /\ proc = "none"
          /\ reader = "none"
          /\ response_queue = <<>>
          /\ stdin = <<>>
          /\ ~stop_event

\* Popen has raised
C22_Witness ==
    /\ pc = "raised"
    /\ proc = "none"

----------------------------------------------------------------------------
(* Every way out of a script closes the connection (SpecLive) *)

\* the close sequence has done its work
Closed == stop_event /\ proc \in Dead

\* the steps of the caller thread in a close sequence; none of them blocks:
\* proc.wait has a timeout
CallerCloses == CloseSetStop \/ CloseTerminate \/ CloseWait \/ CloseKill \/ Dispatch

\* the steps of the caller thread in a wait for a response; q.get has a timeout
CallerWaits ==
    \/ QueueGet
    \/ QueueGetEmpty
    \/ wait_for_response_get
    \/ wait_for_response_empty
    \/ wait_for_response_timeout
    \/ PollGet
    \/ PollGiveUp
    \/ WaitRaises

\* the caller thread is scheduled
SpecLive == Spec /\ WF_vars(CallerCloses) /\ WF_vars(CallerWaits)

\* C35: every way out of the script closes the connection: when the script is
\* over, the stop signal is set and the child is exited or killed, and once
\* the try block is left - by its end, after a timed-out initialize, by an
\* exception - the connection is eventually closed.
C35_EveryExitCloses ==
    /\ [](pc = "done" => Closed)
    /\ (pc \in {"close", "finally_close"}) ~> Closed

\* a write to the child's stdin raised in the middle of the sequence and the
\* script has ended with the connection closed
C35_Witness ==
    /\ pc = "done"
    /\ \E k \in Ids : results[k] = "BrokenPipeError"
    /\ cur > 1
    /\ Closed

----------------------------------------------------------------------------
(* The waits (SpecLive) and the messages that are not objects (Spec) *)

C39_NonObjectDoesNotAbort ==
    [][(/\ pc = "wait"
        /\ response_queue # <<>>
        /\ Head(response_queue) = Number
        /\ response_queue' = Tail(response_queue)
        /\ cur < NumCalls) => pc' \notin {"close", "finally_close"}]_vars

----------------------------------------------------------------------------
(* The order of the messages a script writes (Spec) *)

\* a textDocument/* request: every request of a script but initialize
IsFeatureRequest(m) == m.method = "request" /\ m.id >= 2

\* C26: a textDocument/* request is written only when a textDocument/didOpen
\* for its document has been written before it on the connection.
C26_DidOpenBeforeFeatureRequest ==
    \A i \in 1..Len(stdin) :
        IsFeatureRequest(stdin[i])
        => \E j \in 1..(i - 1) : stdin[j] = NotificationOut("textDocument/didOpen")

\* C27: the ids of the requests written on a connection increase strictly in
\* the order of writing, so no two requests carry the same id.
C27_IdsIncrease ==
    \A i \in 1..Len(stdin) : \A j \in 1..Len(stdin) :
        (i < j /\ stdin[i].id # NoId /\ stdin[j].id # NoId) => stdin[i].id < stdin[j].id

\* all the requests of a script have been written
C27_Witness ==
    /\ Len(SelectSeq(stdin, LAMBDA m : m.id # NoId)) = NumCalls
    /\ pc = "done"

\* the positions of the caller at a write to proc.stdin
SendPcs == {"send", "initialized", "didOpen"}

\* the caller's statement at a position of SendPcs completes
CallerSends ==
    SendRequest \/ SendInitialized \/ SendDidOpen \/ SendFails \/ OpenFails \/ SkipDidOpen

\* C28: a write to proc.stdin does not suspend the caller: at every position
\* where the script writes a message, the write can complete, whatever the
\* child does.
C28_SendNeverBlocks ==
    pc \in SendPcs => ENABLED CallerSends

----------------------------------------------------------------------------
(* The diagnostic output of the child (Spec) *)

\* C37: a child that keeps writing diagnostic output to its stderr is never
\* held by the client: as long as it runs, its next write to stderr can
\* complete, and with it the step that follows.
C37_StderrNeverBlocksChild ==
    proc = "running" => ENABLED ChildLogs

----------------------------------------------------------------------------
(* What the reader thread and the caller share (Spec) *)

\* the state of the caller thread
callerVars == <<pc, cur, stdin, resp, results, elapsed, polls, responses, handled>>

\* the messages on the queue
Queued == {response_queue[i] : i \in 1..Len(response_queue)}

----------------------------------------------------------------------------
(* SpecBench: benchmark_lsp and print_results of benchmark.py.  A trial is  *)
(* one iteration of the loop of benchmark_lsp: one child, one connection.   *)
(* The variables script, pc, cur and results are those of the harness:      *)
(* results is its dictionary of lists of samples, cur the index of the      *)
(* operation the trial is at.  timed_out records, beside every sample, if   *)
(* it was appended by an "except queue.Empty" branch.                       *)

\* number of trials (iterations=5 in the source)
Iterations == 2
\* largest latency measured, in milliseconds
MaxSample == 2

Samples == 1..MaxSample

\* float('inf'): larger than every sample and every sum of samples
inf == Iterations * MaxSample + 1

\* the keys of results, in the order of the operations of a trial (of the five
\* requests of a trial two are modelled)
Operations == <<"startup", "didOpen", "documentSymbol", "hover">>

OperationSet == {Operations[n] : n \in 1..Len(Operations)}

InitBench ==
    /\ script = "benchmark"
    /\ pc = "trial"
    /\ cur = 1
    /\ results = [op \in OperationSet |-> <<>>]
    /\ timed_out = [op \in OperationSet |-> <<>>]
    /\ iteration = 0
    /\ report = <<>>
    /\ children = <<>>
    /\ queues = [q \in 1..Iterations |-> <<>>]
    /\ stdin = <<>>
    /\ stdout = <<>>
    /\ response_queue = <<>>
    /\ resp = [k \in Ids |-> Pending]
    /\ elapsed = 0
    /\ polls = 0
    /\ responses = <<>>
    /\ handled = [k \in Ids |-> <<>>]
    /\ nemit = 0
    /\ stop_event = FALSE
    /\ proc = "none"
    /\ reader = "none"
    /\ stdout_open = TRUE
    /\ file_exists = TRUE
    /\ child_reads = TRUE
    /\ stderr = 0
    /\ CodecIdle

benchRest == <<script, stdin, stdout, response_queue, resp, elapsed, polls, responses,
               handled, nemit, stop_event, proc, reader, stdout_open, file_exists,
               child_reads, stderr, codecVars>>

\* the trial that is running (pc = "op")
Trial == iteration + 1

\* one queue for all the trials, made before the loop
QueueOf_shared(i) == 1

\* response_queue = queue.Queue() in the body of the loop: trial i has queue i
QueueOf(i) == i

\* the queue of the running trial
TrialQueue == queues[QueueOf(Trial)]

\* results[op].append(t)
Record(op, t, timeout) ==
    /\ results' = [results EXCEPT ![op] = Append(@, t)]
    /\ timed_out' = [timed_out EXCEPT ![op] = Append(@, timeout)]

\* the finally block: stop_event.set(), proc.terminate(), proc.wait(timeout=1)
\* and, when the wait times out, proc.kill()
Finish ==
    \E k \in Dead :
        children' = [children EXCEPT ![Trial] = [@ EXCEPT !.stop_event = TRUE, !.proc = k]]

\* the next operation of the trial, or the finally block and the next iteration
Advance ==
    IF cur < Len(Operations)
    THEN pc' = "op" /\ cur' = cur + 1 /\ iteration' = iteration /\ children' = children
    ELSE pc' = "trial" /\ cur' = 1 /\ iteration' = iteration + 1 /\ Finish

\* a trial starts: subprocess.Popen, queue.Queue(), threading.Event(), the
\* reader thread, and the initialize request
BenchSpawn ==
    /\ pc = "trial"
    /\ iteration < Iterations
    /\ children' = Append(children, [proc |-> "running", stop_event |-> FALSE,
                                     stdout |-> <<>>, nemit |-> 0])
    /\ pc' = "op"
    /\ cur' = 1
    /\ UNCHANGED <<iteration, results, timed_out, report, queues>>
    /\ UNCHANGED benchRest

\* the child of trial i writes a message to its stdout
BenchChildEmit(i) ==
    /\ i \in 1..Len(children)
    /\ children[i].proc = "running"
    /\ children[i].nemit < MaxServerMsgs
    /\ children' = [children EXCEPT ![i] = [@ EXCEPT !.stdout = Append(@, [trial |-> i]),
                                                     !.nemit = @ + 1]]
    /\ UNCHANGED <<pc, cur, iteration, results, timed_out, report, queues>>
    /\ UNCHANGED benchRest

\* the reader thread of trial i decodes a message of its child and puts it on
\* the queue it was started with (it may do so after the stop signal: the
\* signal is looked at between two reads only)
BenchReaderPut(i) ==
    /\ i \in 1..Len(children)
    /\ children[i].stdout # <<>>
    /\ queues' = [queues EXCEPT ![QueueOf(i)] = Append(@, Head(children[i].stdout))]
    /\ children' = [children EXCEPT ![i] = [@ EXCEPT !.stdout = Tail(@)]]
    /\ UNCHANGED <<pc, cur, iteration, results, timed_out, report>>
    /\ UNCHANGED benchRest

\* response_queue.get(timeout=..) returns the first message of the queue
Get == queues' = [queues EXCEPT ![QueueOf(Trial)] = Tail(@)]

\* the response to initialize arrives after t ms:
\* results["startup"].append(startup_time * 1000)
BenchInitialize(t) ==
    /\ pc = "op"
    /\ cur = 1
    /\ TrialQueue # <<>>
    /\ Get
    /\ Record("startup", t, FALSE)
    /\ pc' = "op"
    /\ cur' = 2
    /\ UNCHANGED <<iteration, report, children>>
    /\ UNCHANGED benchRest

\* "except queue.Empty: print("TIMEOUT on initialize"); continue"
BenchInitializeTimeout ==
    /\ pc = "op"
    /\ cur = 1
    /\ TrialQueue = <<>>
    /\ pc' = "trial"
    /\ iteration' = iteration + 1
    /\ Finish
    /\ UNCHANGED <<cur, results, timed_out, report, queues>>
    /\ UNCHANGED benchRest

\* the didOpen notification and the sleep: results["didOpen"].append(...)
BenchDidOpen(t) ==
    /\ pc = "op"
    /\ Operations[cur] = "didOpen"
    /\ Record("didOpen", t, FALSE)
    /\ Advance
    /\ UNCHANGED <<report, queues>>
    /\ UNCHANGED benchRest

\* a request whose response_queue.get returns after t ms
BenchRequest(t) ==
    /\ pc = "op"
    /\ cur > 2
    /\ TrialQueue # <<>>
    /\ Get
    /\ Record(Operations[cur], t, FALSE)
    /\ Advance
    /\ UNCHANGED report
    /\ UNCHANGED benchRest

\* a request whose response_queue.get raises queue.Empty: append(float('inf'))
BenchRequestTimeout ==
    /\ pc = "op"
    /\ cur > 2
    /\ TrialQueue = <<>>
    /\ Record(Operations[cur], inf, TRUE)
    /\ Advance
    /\ UNCHANGED <<report, queues>>
    /\ UNCHANGED benchRest

\* a write to proc.stdin raises (the child has exited): "except Exception as e:
\* print(f"ERROR: {e}")", the finally block, the next iteration
BenchException ==
    /\ pc = "op"
    /\ pc' = "trial"
    /\ cur' = 1
    /\ iteration' = iteration + 1
    /\ Finish
    /\ UNCHANGED <<results, timed_out, report, queues>>
    /\ UNCHANGED benchRest

\* a filter that keeps every sample
valid_times_all(times) == times

\* valid_times = [t for t in times if t != float('inf')]
valid_times(times) == SelectSeq(times, LAMBDA t : t # inf)

\* a + b of floats
Plus(a, b) == IF a = inf \/ b = inf THEN inf ELSE a + b

\* sum(valid_times)
RECURSIVE sum(_)
sum(ts) == IF ts = <<>> THEN 0 ELSE Plus(Head(ts), sum(Tail(ts)))

\* min(valid_times)
RECURSIVE min(_)
min(ts) ==
    IF Len(ts) = 1 THEN Head(ts)
    ELSE IF Head(ts) <= min(Tail(ts)) THEN Head(ts) ELSE min(Tail(ts))

\* max(valid_times)
RECURSIVE max(_)
max(ts) ==
    IF Len(ts) = 1 THEN Head(ts)
    ELSE IF Head(ts) >= max(Tail(ts)) THEN Head(ts) ELSE max(Tail(ts))

\* the line print_results prints for the valid samples v of an operation; avg is
\* the quotient sum(v) / len(v), kept as the pair of its terms
ResultLine(v) ==
    IF v # <<>>
    THEN [line |-> "numbers", avg |-> <<sum(v), Len(v)>>, min |-> min(v), max |-> max(v)]
    ELSE [line |-> "TIMEOUT/ERROR", avg |-> <<0, 0>>, min |-> 0, max |-> 0]

\* print_results(name, results), when benchmark_lsp has returned
print_results ==
    /\ pc = "trial"
    /\ iteration = Iterations
    /\ report' = [op \in OperationSet |-> ResultLine(valid_times(results[op]))]
    /\ pc' = "printed"
    /\ UNCHANGED <<cur, results, timed_out, iteration, children, queues>>
    /\ UNCHANGED benchRest

NextBench ==
    \/ BenchSpawn
    \/ \E i \in 1..Iterations : BenchChildEmit(i)
    \/ \E i \in 1..Iterations : BenchReaderPut(i)
    \/ \E t \in Samples : BenchInitialize(t)
    \/ BenchInitializeTimeout
    \/ \E t \in Samples : BenchDidOpen(t)
    \/ \E t \in Samples : BenchRequest(t)
    \/ BenchRequestTimeout
    \/ BenchException
    \/ print_results

SpecBench == InitBench /\ [][NextBench]_vars

----------------------------------------------------------------------------
(* The report of the benchmark (SpecBench) *)

\* C23: when the N trials are over, every trial has contributed exactly one
\* outcome, a sample or a counted failure, to every operation: every list of
\* results has N entries, so that the failures of an operation can be counted.
C23_EveryTrialCounted ==
    pc = "printed" => \A op \in OperationSet : Len(results[op]) = Iterations

\* the samples of op that did not time out, by their positions
Survivors(op) == {n \in 1..Len(results[op]) : ~timed_out[op][n]}

\* the sum of the samples of op at the positions S
RECURSIVE Total(_, _)
Total(op, S) ==
    IF S = {} THEN 0
    ELSE results[op][CHOOSE n \in S : TRUE] + Total(op, S \ {CHOOSE n \in S : TRUE})

\* the line l reports exactly the samples of op at the positions S
Aggregates(l, op, S) ==
    IF S = {} THEN l.line = "TIMEOUT/ERROR"
    ELSE /\ l.line = "numbers"
         /\ l.avg = <<Total(op, S), Cardinality(S)>>
         /\ \E n \in S : l.min = results[op][n]
         /\ \A n \in S : l.min <= results[op][n]
         /\ \E n \in S : l.max = results[op][n]
         /\ \A n \in S : l.max >= results[op][n]

\* C24: the mean, the minimum and the maximum printed for an operation are
\* those of exactly its samples that did not time out, and an operation
\* without such a sample is printed as TIMEOUT/ERROR, without numbers.
C24_AggregatesOverSurvivors ==
    pc = "printed" => \A op \in OperationSet : Aggregates(report[op], op, Survivors(op))

\* a report with an operation that only timed out, one with a timeout and a
\* sample, and one with two different samples
C24_Witness ==
    /\ pc = "printed"
    /\ report["documentSymbol"].line = "TIMEOUT/ERROR"
    /\ Len(results["documentSymbol"]) = Iterations
    /\ \E n \in 1..Len(results["hover"]) : timed_out["hover"][n]
    /\ report["hover"].line = "numbers"
    /\ report["startup"].min < report["startup"].max

----------------------------------------------------------------------------
(* The trials of the benchmark (SpecBench) *)

\* a trial spawns its child
Spawns == Len(children') > Len(children)

\* a response_queue.get of the running trial returns a message
Gets == pc = "op" /\ Len(queues'[QueueOf(Trial)]) < Len(TrialQueue)

\* C32: every trial has a child, a stop signal, a queue and a reader of its
\* own: when a trial spawns its child, the close sequence of every earlier
\* trial has run (stop signal set, child exited or killed), the new child runs
\* with a clear stop signal and an empty queue, and a message that a
\* response_queue.get returns was written by the child of the running trial.
C32_TrialsAreSeparate ==
    [][/\ Spawns =>
            /\ \A i \in 1..Len(children) :
                   children[i].stop_event /\ children[i].proc \in Dead
            /\ children'[Len(children')].proc = "running"
            /\ ~children'[Len(children')].stop_event
            /\ queues[QueueOf(Len(children'))] = <<>>
       /\ Gets => Head(TrialQueue).trial = Trial]_vars

\* the second trial has got a response of its child while a message of the
\* first trial's child, put by its reader, is still on the first trial's queue
C32_Witness ==
    /\ iteration = 1
    /\ pc = "op"
    /\ cur > 1
    /\ queues[QueueOf(1)] # <<>>
    /\ \A n \in 1..Len(queues[QueueOf(1)]) : queues[QueueOf(1)][n].trial = 1

====
